---- MODULE Spec2Model ----
(***************************************************************************)
(* Incubator thermostat (src/Incubator.ino, Pushbutton variant, lines      *)
(* 249-502; the heater decision and the EEPROM handling are the same in    *)
(* the Button variant, lines 1-245).                                       *)
(*                                                                         *)
(* Units: millis and the *Millis timestamps are milliseconds, 32-bit       *)
(* unsigned; setTemp is whole degrees (it is 22, or a byte read from       *)
(* EEPROM, plus or minus whole steps); currentTemp is tenths of a degree.  *)
(***************************************************************************)
EXTENDS Integers, FiniteSets, Sequences, TLC

VARIABLES
  pc,               \* "boot", "setup_save", "setup_read", "loop", "hold"
  millis,           \* the value millis() returns
  eeprom,           \* EEPROM cells 0 (addrInitialized) and 1 (addrSetTemp)
  setTemp,          \* float setTemp, whole degrees
  currentTemp,      \* float currentTemp, tenths of a degree
  heaterIsOn,       \* bool heaterIsOn
  relay,            \* level of HEATER_RELAY_PIN: TRUE is HIGH
  readTempMillis,
  heaterOnMillis,
  heaterOffMillis,
  holdT,            \* the local t of the busy-wait loop
  btnLeft,          \* level of the left button at the last poll (TRUE: pressed)
  btnRight,
  relLeft,          \* release detector of btnLeft: 0 waits for a press, 1 for the release
  relRight,
  branch,           \* history: what the heater decision of the last cycle did
  bothSince,        \* history: start of the observed continuous dual press, -1 if none
  saveHeldFor,      \* history: observed dual-press duration at the last gesture save, -1 if none
  holdSaves,        \* history: gesture saves during the current continuous dual press
  bootCells,        \* history: the EEPROM cells when setup() began
  savedTemp,        \* history: setTemp when SaveSettings() last ran, NoSave if never
  build             \* what the compiled float -> uint8_t conversion does out of range

vars == <<pc, millis, eeprom, setTemp, currentTemp, heaterIsOn, relay,
          readTempMillis, heaterOnMillis, heaterOffMillis, holdT,
          btnLeft, btnRight, relLeft, relRight,
          branch, bothSince, saveHeldFor, holdSaves, bootCells, savedTemp,
          build>>

(***************************************************************************)
(* Program constants.                                                      *)
(***************************************************************************)
addrInitialized == 0
addrSetTemp == 1
eepromInitialized == 101
readInterval == 5000
OnOffInterval == 30000
saveSettingsDelay == 2000
tempDifference == 20        \* 2 degrees, in tenths
tempThreshold == 3          \* 0.3 degrees, in tenths
DefaultSetTemp == 22
AdjustDelay == 200          \* delay(200) after a single-button adjust
SavedDelay == 2500          \* delay(2500) after a save
Tenths == 10                \* tenths per degree
HalfWord == 2147483647      \* 2^31 - 1: every time of the model is below 2^31
ByteRange == 256            \* 2^8: one EEPROM cell
FreshCell == 255            \* content of a never-written EEPROM cell
SensorFault == (0 - 1270)   \* DEVICE_DISCONNECTED_C, -127 degrees

(***************************************************************************)
(* Bounds of the model.                                                    *)
(***************************************************************************)
MaxMillis == 45000          \* Spec: no pass of loop() ends after this time
MaxGestureMillis == 12000   \* SpecGesture: the same
MaxStoreMillis == 16000     \* SpecStore: the same
MaxDrift == 1               \* setTemp stays within MaxDrift of a boot setpoint

NoSave == (0 - 1000)
BootSetpoints == {0, DefaultSetTemp, 255}

\* what the environment does in each specification: the time one pass of
\* loop() or of the busy-wait takes, the button levels, the sensor's answer
Ticks == {5000, 31000}
Readings == {SensorFault, 190, 210, 218, 225}
OneButton == {<<FALSE, FALSE>>, <<TRUE, FALSE>>, <<FALSE, TRUE>>}
GestureTicks == {1000}
GestureReadings == {190, 225}
TwoButtons == BOOLEAN \X BOOLEAN
StoreTicks == {1000}
StoreReadings == {210}

\* unsigned long subtraction a - b, for a and b below 2^31. When b > a the
\* difference wraps to 2^32 - (b - a), which is above 2^31: it is given as
\* HalfWord, and compares with every interval of the program as the wrapped
\* value does.
Sub32(a, b) == IF a >= b THEN a - b ELSE HalfWord

\* the two EEPROM cells the program uses
Cells(a, b) == (addrInitialized :> a) @@ (addrSetTemp :> b)

InDrift(s) == \E b \in BootSetpoints : s - b <= MaxDrift /\ b - s <= MaxDrift

(***************************************************************************)
(* EEPROM.update(addrSetTemp, setTemp): the float is converted to uint8_t. *)
(* Inside 0..255 the conversion is exact for whole degrees; outside it is  *)
(* undefined behaviour: a build keeps the low byte ("low") or saturates    *)
(* ("sat"), and does the same at every call.                               *)
(***************************************************************************)
Builds == {"low", "sat"}

FloatToByteOn(bd, v) ==
  IF v >= 0 /\ v < ByteRange THEN v
  ELSE IF bd = "low" THEN v % ByteRange
  ELSE IF v < 0 THEN 0 ELSE ByteRange - 1

\* the bytes the conversion of v can give, over the builds
FloatToByte(v) == {FloatToByteOn(bd, v) : bd \in Builds}

\* faulty variant of SaveSettings(): the byte is added to the cell
SaveSettings_Accumulate(ee, b) ==
  [ee EXCEPT ![addrSetTemp] = (ee[addrSetTemp] + b) % ByteRange]

\* faulty variant of SaveSettings(): the byte goes to the other cell
SaveSettings_WrongCell(ee, b) == [ee EXCEPT ![addrInitialized] = b]

\* SaveSettings(): the cells after EEPROM.update(addrSetTemp, setTemp)
SaveSettings(ee, b) == [ee EXCEPT ![addrSetTemp] = b]

(***************************************************************************)
(* The heater decision of loop().                                          *)
(***************************************************************************)
overShootControlActive(set, cur) == set * Tenths - cur <= tempDifference

\* faulty variants of the turn-on condition: without the threshold, without the dwell
GuardTurnOn_NoThreshold(set, cur, on, now, offAt) ==
  cur < set * Tenths /\ ~on /\ Sub32(now, offAt) > OnOffInterval

GuardTurnOn_NoDwell(set, cur, on, now, offAt) ==
  cur + tempThreshold < set * Tenths /\ ~on

GuardTurnOn(set, cur, on, now, offAt) ==
  cur + tempThreshold < set * Tenths /\ ~on /\ Sub32(now, offAt) > OnOffInterval

\* faulty variants of the turn-off condition: without the cutoff, with && for ||
GuardTurnOff_NoCutoff(set, cur, on, now, onAt) ==
  on /\ cur >= set * Tenths

GuardTurnOff_Both(set, cur, on, now, onAt) ==
  on /\ (cur >= set * Tenths /\ Sub32(now, onAt) > OnOffInterval)

GuardTurnOff(set, cur, on, now, onAt) ==
  on /\ (cur >= set * Tenths \/ Sub32(now, onAt) > OnOffInterval)

\* faulty variant of the fast-recovery turn-on: gated by the dwell since the last turn-off
FastTurnOn_Gated(set, cur, on) ==
  cur < set * Tenths /\ ~on /\ Sub32(millis, heaterOffMillis) > OnOffInterval

FastTurnOn(set, cur, on) == cur < set * Tenths /\ ~on

HeaterDecision(set, cur, on, now, onAt, offAt) ==
  IF overShootControlActive(set, cur)
  THEN IF GuardTurnOn(set, cur, on, now, offAt) THEN "guardOn"
       ELSE IF GuardTurnOff(set, cur, on, now, onAt) THEN "guardOff"
       ELSE "none"
  ELSE IF FastTurnOn(set, cur, on) THEN "fastOn" ELSE "none"

(***************************************************************************)
(* turnHeaterOn() and turnHeaterOff(): what a decision d leaves in         *)
(* heaterIsOn, on the relay pin and in the two timestamps.                 *)
(***************************************************************************)
TurnsOn(d) == d \in {"guardOn", "fastOn"}

TurnsOff(d) == d = "guardOff"

HeaterAfter(d, on) == IF TurnsOn(d) THEN TRUE ELSE IF TurnsOff(d) THEN FALSE ELSE on

\* faulty variant of the relay output: turnHeaterOff() leaves the pin alone
RelayAfter_NoLow(d, level) == IF TurnsOn(d) THEN TRUE ELSE level

RelayAfter(d, level) == IF TurnsOn(d) THEN TRUE ELSE IF TurnsOff(d) THEN FALSE ELSE level

OnMillisAfter(d, now, onAt) == IF TurnsOn(d) THEN now ELSE onAt

\* faulty variant of the turn-off timestamp: turnHeaterOn() sets it too
OffMillisAfter_Any(d, now, offAt) == IF TurnsOn(d) \/ TurnsOff(d) THEN now ELSE offAt

OffMillisAfter(d, now, offAt) == IF TurnsOff(d) THEN now ELSE offAt

\* faulty variant of the sampler's gate: the elapsed time is not looked at
SampleDue_Always(now) == TRUE

\* readTemperatureWithInterval(): whether a new reading is taken at now
SampleDue(now) == Sub32(now, readTempMillis) >= readInterval

(***************************************************************************)
(* The second half of loop(): sample, then decide, at time now with the    *)
(* setpoint set; rd is what the sensor returns if it is read.              *)
(***************************************************************************)
SampleAndControl(now, set, rd) ==
  LET cur == IF SampleDue(now) THEN rd ELSE currentTemp
      d == HeaterDecision(set, cur, heaterIsOn, now, heaterOnMillis, heaterOffMillis)
  IN /\ currentTemp' = cur
     /\ readTempMillis' = IF SampleDue(now) THEN now ELSE readTempMillis
     /\ branch' = d
     /\ heaterIsOn' = HeaterAfter(d, heaterIsOn)
     /\ relay' = RelayAfter(d, relay)
     /\ heaterOnMillis' = OnMillisAfter(d, now, heaterOnMillis)
     /\ heaterOffMillis' = OffMillisAfter(d, now, heaterOffMillis)
     /\ millis' = now

\* the observed dual press after a poll that saw levels l and r at time now
Observe(now, l, r) ==
  /\ btnLeft' = l
  /\ btnRight' = r
  /\ bothSince' = IF l /\ r THEN (IF bothSince = -1 THEN now ELSE bothSince) ELSE -1

(***************************************************************************)
(* setup(), in the three steps a power loss can separate.                  *)
(***************************************************************************)
\* faulty variant of the sentinel test: every boot is taken for a first boot
SetupNeedsInit_Always(ee) == TRUE

SetupNeedsInit(ee) == ee[addrInitialized] # eepromInitialized

SetupCheck ==
  /\ pc = "boot"
  /\ bootCells' = eeprom
  /\ IF SetupNeedsInit(eeprom)
     THEN /\ eeprom' = [eeprom EXCEPT ![addrInitialized] = eepromInitialized]
          /\ pc' = "setup_save"
     ELSE /\ eeprom' = eeprom
          /\ pc' = "setup_read"
  /\ UNCHANGED <<build, millis, setTemp, currentTemp, heaterIsOn, relay, readTempMillis,
                 heaterOnMillis, heaterOffMillis, holdT, btnLeft, btnRight,
                 relLeft, relRight, branch, bothSince, saveHeldFor, holdSaves,
                 savedTemp>>

SetupSave ==
  /\ pc = "setup_save"
  /\ eeprom' = SaveSettings(eeprom, FloatToByteOn(build, setTemp))
  /\ savedTemp' = setTemp
  /\ pc' = "setup_read"
  /\ UNCHANGED <<build, millis, setTemp, currentTemp, heaterIsOn, relay, readTempMillis,
                 heaterOnMillis, heaterOffMillis, holdT, btnLeft, btnRight,
                 relLeft, relRight, branch, bothSince, saveHeldFor, holdSaves,
                 bootCells>>

SetupRead(rd) ==
  /\ pc = "setup_read"
  /\ setTemp' = eeprom[addrSetTemp]
  /\ currentTemp' = rd
  /\ pc' = "loop"
  /\ UNCHANGED <<build, millis, eeprom, heaterIsOn, relay, readTempMillis,
                 heaterOnMillis, heaterOffMillis, holdT, btnLeft, btnRight,
                 relLeft, relRight, branch, bothSince, saveHeldFor, holdSaves,
                 bootCells, savedTemp>>

(***************************************************************************)
(* loop(), entered with the buttons at levels l and r, dt after the        *)
(* previous pass ended.                                                    *)
(***************************************************************************)
LoopAdjustLeft(h, dt, l, r, rd) ==
  /\ millis + dt <= h
  /\ pc = "loop"
  /\ relLeft = 1 /\ ~l                       \* btnLeft.getSingleDebouncedRelease()
  /\ InDrift(setTemp - 1)
  /\ setTemp' = setTemp - 1
  /\ relLeft' = 0
  /\ Observe(millis + dt, l, r)
  /\ SampleAndControl(millis + dt + AdjustDelay, setTemp - 1, rd)
  /\ holdSaves' = 0
  /\ UNCHANGED <<build, pc, eeprom, holdT, relRight, saveHeldFor, bootCells, savedTemp>>

LoopAdjustRight(h, dt, l, r, rd) ==
  /\ millis + dt <= h
  /\ pc = "loop"
  /\ ~(relLeft = 1 /\ ~l)
  /\ relRight = 1 /\ ~r                      \* btnRight.getSingleDebouncedRelease()
  /\ InDrift(setTemp + 1)
  /\ setTemp' = setTemp + 1
  /\ relLeft' = IF l THEN 1 ELSE relLeft
  /\ relRight' = 0
  /\ Observe(millis + dt, l, r)
  /\ SampleAndControl(millis + dt + AdjustDelay, setTemp + 1, rd)
  /\ holdSaves' = 0
  /\ UNCHANGED <<build, pc, eeprom, holdT, saveHeldFor, bootCells, savedTemp>>

LoopEnterHold(h, dt, l, r) ==
  /\ millis + dt <= h
  /\ pc = "loop"
  /\ l /\ r                                  \* btnLeft.isPressed() && btnRight.isPressed()
  /\ millis' = millis + dt
  /\ holdT' = millis + dt                    \* long t = millis()
  /\ relLeft' = 1
  /\ relRight' = 1
  /\ Observe(millis + dt, l, r)
  /\ pc' = "hold"
  /\ UNCHANGED <<build, eeprom, setTemp, currentTemp, heaterIsOn, relay, readTempMillis,
                 heaterOnMillis, heaterOffMillis, branch, saveHeldFor, holdSaves,
                 bootCells, savedTemp>>

LoopIdle(h, dt, l, r, rd) ==
  /\ millis + dt <= h
  /\ pc = "loop"
  /\ ~(relLeft = 1 /\ ~l)
  /\ ~(relRight = 1 /\ ~r)
  /\ ~(l /\ r)
  /\ relLeft' = IF l THEN 1 ELSE relLeft
  /\ relRight' = IF r THEN 1 ELSE relRight
  /\ Observe(millis + dt, l, r)
  /\ SampleAndControl(millis + dt, setTemp, rd)
  /\ holdSaves' = 0
  /\ UNCHANGED <<build, pc, eeprom, setTemp, holdT, saveHeldFor, bootCells, savedTemp>>

(***************************************************************************)
(* One pass of while (btnLeft.isPressed() && btnRight.isPressed()).        *)
(***************************************************************************)
\* faulty variant of the busy-wait condition: the right button is not looked at
HoldWhile_LeftOnly(l, r) == l

HoldWhile(l, r) == l /\ r

HoldExpired(now, t) == Sub32(now, t) > saveSettingsDelay

HoldWait(h, dt, l, r) ==
  /\ millis + dt <= h
  /\ pc = "hold"
  /\ HoldWhile(l, r)
  /\ ~HoldExpired(millis + dt, holdT)
  /\ millis' = millis + dt
  /\ Observe(millis + dt, l, r)
  /\ UNCHANGED <<build, pc, eeprom, setTemp, currentTemp, heaterIsOn, relay, readTempMillis,
                 heaterOnMillis, heaterOffMillis, holdT, relLeft, relRight,
                 branch, saveHeldFor, holdSaves, bootCells, savedTemp>>

HoldSave(h, dt, l, r, rd) ==
  /\ millis + dt <= h
  /\ pc = "hold"
  /\ HoldWhile(l, r)
  /\ HoldExpired(millis + dt, holdT)
  /\ eeprom' = SaveSettings(eeprom, FloatToByteOn(build, setTemp))
  /\ savedTemp' = setTemp
  /\ Observe(millis + dt, l, r)
  /\ saveHeldFor' = IF bothSince' = -1 THEN 0 ELSE Sub32(millis + dt, bothSince')
  /\ holdSaves' = IF holdSaves < 2 THEN holdSaves + 1 ELSE holdSaves
  /\ SampleAndControl(millis + dt + SavedDelay, setTemp, rd)
  /\ pc' = "loop"
  /\ UNCHANGED <<build, setTemp, holdT, relLeft, relRight, bootCells>>

HoldRelease(h, dt, l, r, rd) ==
  /\ millis + dt <= h
  /\ pc = "hold"
  /\ ~HoldWhile(l, r)
  /\ Observe(millis + dt, l, r)
  /\ SampleAndControl(millis + dt, setTemp, rd)
  /\ holdSaves' = 0
  /\ pc' = "loop"
  /\ UNCHANGED <<build, eeprom, setTemp, holdT, relLeft, relRight, saveHeldFor,
                 bootCells, savedTemp>>

(***************************************************************************)
(* Power-up: the globals take their initialisers, the EEPROM keeps its     *)
(* content, the relay pin is LOW.                                          *)
(***************************************************************************)
Ram ==
  /\ pc = "boot"
  /\ millis = 0
  /\ setTemp = DefaultSetTemp
  /\ currentTemp = 0
  /\ heaterIsOn = FALSE
  /\ relay = FALSE
  /\ readTempMillis = 0
  /\ heaterOnMillis = 0
  /\ heaterOffMillis = 0
  /\ holdT = 0
  /\ btnLeft = FALSE
  /\ btnRight = FALSE
  /\ relLeft = 0
  /\ relRight = 0
  /\ branch = "init"
  /\ bothSince = -1
  /\ saveHeldFor = -1
  /\ holdSaves = 0

\* power is lost and comes back, at any point of setup() or loop()
PowerCycle ==
  /\ pc' = "boot"
  /\ millis' = 0
  /\ setTemp' = DefaultSetTemp
  /\ currentTemp' = 0
  /\ heaterIsOn' = FALSE
  /\ relay' = FALSE
  /\ readTempMillis' = 0
  /\ heaterOnMillis' = 0
  /\ heaterOffMillis' = 0
  /\ holdT' = 0
  /\ btnLeft' = FALSE
  /\ btnRight' = FALSE
  /\ relLeft' = 0
  /\ relRight' = 0
  /\ branch' = "init"
  /\ bothSince' = -1
  /\ saveHeldFor' = -1
  /\ holdSaves' = 0
  /\ bootCells' = eeprom
  /\ UNCHANGED <<build, eeprom, savedTemp>>

\* a device found with the sentinel has run SaveSettings() in an earlier life,
\* and cell 1 holds what it wrote; a fresh device never has
WrittenBefore(ee) ==
  IF ee[addrInitialized] = eepromInitialized THEN ee[addrSetTemp] ELSE NoSave

\* the setpoints of Spec and SpecGesture stay inside 0..255, where the builds agree
Init ==
  /\ Ram
  /\ eeprom \in {Cells(FreshCell, FreshCell), Cells(eepromInitialized, DefaultSetTemp)}
  /\ bootCells = eeprom
  /\ savedTemp = WrittenBefore(eeprom)
  /\ build = "low"

\* the thermostat with single-button gestures
Next ==
  \/ SetupCheck
  \/ SetupSave
  \/ \E rd \in Readings : SetupRead(rd)
  \/ \E dt \in Ticks, b \in OneButton, rd \in Readings :
       \/ LoopAdjustLeft(MaxMillis, dt, b[1], b[2], rd)
       \/ LoopAdjustRight(MaxMillis, dt, b[1], b[2], rd)
       \/ LoopIdle(MaxMillis, dt, b[1], b[2], rd)

Spec == Init /\ [][Next]_vars

\* the gestures at the busy-wait's time scale
NextGesture ==
  \/ SetupCheck
  \/ SetupSave
  \/ \E rd \in GestureReadings : SetupRead(rd)
  \/ \E dt \in GestureTicks, b \in TwoButtons, rd \in GestureReadings :
       \/ LoopAdjustLeft(MaxGestureMillis, dt, b[1], b[2], rd)
       \/ LoopAdjustRight(MaxGestureMillis, dt, b[1], b[2], rd)
       \/ LoopEnterHold(MaxGestureMillis, dt, b[1], b[2])
       \/ LoopIdle(MaxGestureMillis, dt, b[1], b[2], rd)
       \/ HoldWait(MaxGestureMillis, dt, b[1], b[2])
       \/ HoldSave(MaxGestureMillis, dt, b[1], b[2], rd)
       \/ HoldRelease(MaxGestureMillis, dt, b[1], b[2], rd)

SpecGesture == Init /\ [][NextGesture]_vars

\* storage across power cycles, from fresh and from provisioned devices
InitStore ==
  /\ Ram
  /\ eeprom \in {Cells(FreshCell, FreshCell)}
                  \cup {Cells(eepromInitialized, s) : s \in BootSetpoints}
  /\ bootCells = eeprom
  /\ savedTemp = WrittenBefore(eeprom)
  /\ build \in Builds

NextStore ==
  \/ SetupCheck
  \/ SetupSave
  \/ \E rd \in StoreReadings : SetupRead(rd)
  \/ PowerCycle
  \/ \E dt \in StoreTicks, b \in TwoButtons, rd \in StoreReadings :
       \/ LoopAdjustLeft(MaxStoreMillis, dt, b[1], b[2], rd)
       \/ LoopAdjustRight(MaxStoreMillis, dt, b[1], b[2], rd)
       \/ LoopEnterHold(MaxStoreMillis, dt, b[1], b[2])
       \/ LoopIdle(MaxStoreMillis, dt, b[1], b[2], rd)
       \/ HoldWait(MaxStoreMillis, dt, b[1], b[2])
       \/ HoldSave(MaxStoreMillis, dt, b[1], b[2], rd)
       \/ HoldRelease(MaxStoreMillis, dt, b[1], b[2], rd)

SpecStore == InitStore /\ [][NextStore]_vars

(***************************************************************************)
(* Properties of the heater decision, checked under Spec.                  *)
(***************************************************************************)

\* a step that runs one pass of loop() to its end: the sampler poll and the
\* heater decision are evaluated at time millis' on setTemp' and currentTemp'
CyclePass == pc \in {"loop", "hold"} /\ pc' = "loop"

\* the state is the end of a pass of loop()
CycleEnd == pc = "loop" /\ branch # "init"

\* C1: in a pass of loop() that starts with the heater Off and decides on a
\* reading more than tempDifference below setTemp, the heater is On (and the
\* relay HIGH) at the end of the pass, whatever millis() and the timestamps are.
C1_FastRecovery ==
  [][CyclePass /\ ~heaterIsOn /\ setTemp' * Tenths - currentTemp' > tempDifference
       => heaterIsOn' /\ relay']_vars

\* C1 witness: the heater was turned On in the fast-recovery zone although the
\* last turn-off (a real one) was no more than OnOffInterval ago.
C1_Witness ==
  /\ CycleEnd /\ branch = "fastOn" /\ heaterIsOn /\ relay
  /\ currentTemp # SensorFault
  /\ setTemp * Tenths - currentTemp > tempDifference
  /\ heaterOffMillis > 0
  /\ Sub32(millis, heaterOffMillis) <= OnOffInterval

\* C2 as claimed: in a pass of loop() that starts with the heater On and in
\* which millis() - heaterOnMillis > OnOffInterval, the heater is Off at the
\* end of the pass, for every currentTemp and setTemp.
C2_CutoffEverywhere ==
  [][CyclePass /\ heaterIsOn /\ Sub32(millis', heaterOnMillis) > OnOffInterval
       => ~heaterIsOn']_vars

\* C2 amended: the cutoff acts in the guard band only. In a pass that starts
\* with the heater On: if the reading is within tempDifference of setTemp (or
\* above it) and millis() - heaterOnMillis > OnOffInterval, the heater is Off at
\* the end of the pass; if the reading is more than tempDifference below
\* setTemp, the heater stays On however long it has been On.
C2_CutoffInGuardBand ==
  [][CyclePass /\ heaterIsOn
       => IF setTemp' * Tenths - currentTemp' <= tempDifference
          THEN (Sub32(millis', heaterOnMillis) > OnOffInterval => ~heaterIsOn')
          ELSE heaterIsOn']_vars

\* C2 witness: the heater was cut off by the dwell interval with the reading
\* still below the setpoint.
C2_Witness ==
  /\ CycleEnd /\ branch = "guardOff"
  /\ currentTemp < setTemp * Tenths
  /\ Sub32(millis, heaterOnMillis) > OnOffInterval

\* C3 as claimed: a pass of loop() that decides on the fault reading leaves
\* heaterIsOn and the relay as they were.
C3_FaultHoldsHeater ==
  [][CyclePass /\ currentTemp' = SensorFault
       => heaterIsOn' = heaterIsOn /\ relay' = relay]_vars

\* C4: in a pass of loop() that decides in the guard band, the heater goes
\* from Off to On if and only if it was Off, currentTemp + tempThreshold <
\* setTemp and millis() - heaterOffMillis > OnOffInterval.
C4_GuardTurnOn ==
  [][CyclePass /\ setTemp' * Tenths - currentTemp' <= tempDifference
       => ((~heaterIsOn /\ heaterIsOn')
            <=> (/\ ~heaterIsOn
                 /\ currentTemp' + tempThreshold < setTemp' * Tenths
                 /\ Sub32(millis', heaterOffMillis) > OnOffInterval))]_vars

\* C4 witness: a turn-on decided in the guard band.
C4_Witness ==
  /\ CycleEnd /\ branch = "guardOn" /\ heaterIsOn
  /\ setTemp * Tenths - currentTemp <= tempDifference

\* C5: in a pass of loop() that decides in the guard band, the heater goes
\* from On to Off if and only if it was On and currentTemp >= setTemp or
\* millis() - heaterOnMillis > OnOffInterval.
C5_GuardTurnOff ==
  [][CyclePass /\ setTemp' * Tenths - currentTemp' <= tempDifference
       => ((heaterIsOn /\ ~heaterIsOn')
            <=> (/\ heaterIsOn
                 /\ \/ currentTemp' >= setTemp' * Tenths
                    \/ Sub32(millis', heaterOnMillis) > OnOffInterval))]_vars

\* C5 witness: a heater turned Off at or above the setpoint no more than
\* OnOffInterval after it was turned On.
C5_Witness ==
  /\ CycleEnd /\ branch = "guardOff" /\ ~heaterIsOn
  /\ currentTemp >= setTemp * Tenths
  /\ Sub32(millis, heaterOnMillis) <= OnOffInterval

\* C6 as claimed: a transition decided in the guard band, in either
\* direction, leaves a heater state that has lasted at least OnOffInterval.
C6_DwellBothWays ==
  [][CyclePass /\ setTemp' * Tenths - currentTemp' <= tempDifference
       /\ heaterIsOn' # heaterIsOn
       => Sub32(millis', IF heaterIsOn THEN heaterOnMillis ELSE heaterOffMillis)
            >= OnOffInterval]_vars

\* C6 amended: in the guard band the dwell holds for Off -> On only. A
\* turn-on decided there comes more than OnOffInterval after the last
\* turn-off; a turn-off decided there comes more than OnOffInterval after the
\* turn-on unless currentTemp >= setTemp, which turns the heater Off at once.
C6_DwellOffToOn ==
  [][CyclePass /\ setTemp' * Tenths - currentTemp' <= tempDifference
       /\ heaterIsOn' # heaterIsOn
       => IF heaterIsOn
          THEN \/ currentTemp' >= setTemp' * Tenths
               \/ Sub32(millis', heaterOnMillis) > OnOffInterval
          ELSE Sub32(millis', heaterOffMillis) > OnOffInterval]_vars

\* C6 witness: a turn-on decided in the guard band after a real turn-off.
C6_Witness ==
  /\ CycleEnd /\ branch = "guardOn"
  /\ heaterOffMillis > 0
  /\ Sub32(heaterOnMillis, heaterOffMillis) > OnOffInterval

(***************************************************************************)
(* Properties of the stored setpoint, checked under SpecStore.             *)
(***************************************************************************)

\* setup() has just returned
SetupDone == pc = "loop" /\ branch = "init"

\* C7 as claimed: when setup() returns after a restart, the setpoint in
\* memory is the one that was in memory when SaveSettings() last ran, for
\* every whole-degree setpoint, those below 0 and above 255 included.
C7_RoundTrip == SetupDone /\ savedTemp # NoSave => setTemp = savedTemp

\* C8: when setup() began with the sentinel absent, it returns with setTemp
\* the default, cell 0 the sentinel and cell 1 the default; when it began
\* with the sentinel present, the cells are the ones it found, at its end and
\* on the way.
C8_FirstBoot ==
  IF bootCells[addrInitialized] # eepromInitialized
  THEN SetupDone => /\ setTemp = DefaultSetTemp
                    /\ eeprom = Cells(eepromInitialized, DefaultSetTemp)
  ELSE SetupDone \/ pc = "setup_read" => eeprom = bootCells

\* C8 witness: setup() returned on a device that had no sentinel.
C8_Witness ==
  /\ SetupDone
  /\ bootCells = Cells(FreshCell, FreshCell)
  /\ eeprom[addrSetTemp] = DefaultSetTemp
  /\ savedTemp = DefaultSetTemp

(***************************************************************************)
(* Properties of the combined-hold gesture, checked under SpecGesture.     *)
(***************************************************************************)

\* C9 as claimed: while both buttons are seen pressed at every poll, the
\* gesture calls SaveSettings() at most once.
C9_NoRefire == holdSaves <= 1

\* C10: the gesture calls SaveSettings() only when both buttons have been
\* seen pressed at every poll for at least saveSettingsDelay; and inside the
\* busy-wait the timer (millis() - t) never counts time from before the
\* current dual press began, so a release starts it again from zero.
C10_ContinuousHold ==
  /\ saveHeldFor = -1 \/ saveHeldFor >= saveSettingsDelay
  /\ pc = "hold" => /\ bothSince # -1
                    /\ Sub32(millis, holdT) <= Sub32(millis, bothSince)

\* C10 witness: the gesture has saved once after a dual press of at least
\* saveSettingsDelay.
C10_Witness ==
  /\ CycleEnd
  /\ holdSaves = 1
  /\ saveHeldFor >= saveSettingsDelay
  /\ savedTemp = setTemp
  /\ eeprom[addrSetTemp] = setTemp

(***************************************************************************)
(* The control cycle during the combined-hold gesture, under SpecGesture.  *)
(***************************************************************************)

\* C11 as claimed: the gesture never keeps the sampler poll and the heater
\* decision waiting. At the end of every pass of loop() and at every poll
\* of the busy-wait, no sample is overdue and the heater decision, taken at
\* the time the program has just read, asks for no transition.
C11_NeverStalled ==
  pc = "hold" \/ CycleEnd
    => /\ ~SampleDue(millis)
       /\ HeaterDecision(setTemp, currentTemp, heaterIsOn, millis,
                         heaterOnMillis, heaterOffMillis) = "none"

\* C12: a pass of loop() takes a new reading (and sets readTempMillis to
\* the time of the pass) only when millis() - readTempMillis >= readInterval;
\* otherwise currentTemp and readTempMillis stay as they were. So two
\* consecutive samples of loop() are at least readInterval apart.
C12_SampleGate ==
  [][CyclePass
       => /\ IF Sub32(millis', readTempMillis) >= readInterval
             THEN readTempMillis' = millis'
             ELSE currentTemp' = currentTemp /\ readTempMillis' = readTempMillis
          /\ readTempMillis' # readTempMillis
               => Sub32(readTempMillis', readTempMillis) >= readInterval]_vars

\* C12 witness: a pass of loop() that came less than readInterval after a
\* sample taken in loop() and took no reading.
C12_Witness ==
  /\ CycleEnd
  /\ readTempMillis >= readInterval
  /\ millis > readTempMillis
  /\ Sub32(millis, readTempMillis) < readInterval

(***************************************************************************)
(* Properties of what is written to the EEPROM, under SpecStore.           *)
(***************************************************************************)

\* a pass of loop() in which btnLeft.getSingleDebouncedRelease() is true
LeftRelease == pc = "loop" /\ pc' = "loop" /\ relLeft = 1 /\ ~btnLeft'

\* a pass of loop() in which the right button's release is the one acted on
RightRelease ==
  pc = "loop" /\ pc' = "loop" /\ ~(relLeft = 1 /\ ~btnLeft') /\ relRight = 1 /\ ~btnRight'

\* C13: a decrement or increment gesture changes setTemp by exactly 1 and
\* leaves both EEPROM cells as they were; the setpoint cell changes only in
\* a step that runs SaveSettings(), and that step is the SaveSettings() of
\* a setup() that found no sentinel or the one of the save gesture.
C13_AdjustDoesNotPersist ==
  [][/\ LeftRelease => setTemp' = setTemp - 1 /\ eeprom' = eeprom
     /\ RightRelease => setTemp' = setTemp + 1 /\ eeprom' = eeprom
     /\ eeprom'[addrSetTemp] # eeprom[addrSetTemp]
          => \/ pc = "setup_save" /\ bootCells[addrInitialized] # eepromInitialized
             \/ pc = "hold" /\ btnLeft' /\ btnRight'
                  /\ HoldExpired(millis' - SavedDelay, holdT)]_vars

\* C13 witness: after an adjust the setpoint in memory is off the stored one
\* by 1, and the cells are the ones found at boot.
C13_Witness ==
  /\ CycleEnd
  /\ eeprom = bootCells
  /\ eeprom[addrInitialized] = eepromInitialized
  /\ setTemp - eeprom[addrSetTemp] \in {1, 0 - 1}

\* a step in which SaveSettings() runs: in setup(), or at the exit of the
\* busy-wait with both buttons still pressed
SaveStep ==
  \/ pc = "setup_save" /\ pc' = "setup_read"
  \/ pc = "hold" /\ pc' = "loop" /\ btnLeft' /\ btnRight'

\* C14: SaveSettings() never changes setTemp, and a SaveSettings() that runs
\* with setTemp equal to what it was at the previous SaveSettings() leaves
\* both EEPROM cells as that call left them, for setpoints outside 0..255 too.
C14_SaveIdempotent ==
  [][SaveStep
       => /\ setTemp' = setTemp
          /\ savedTemp = setTemp => eeprom' = eeprom]_vars

\* C14 witness: the gesture has saved twice in a row a setpoint outside
\* 0..255, and the cell holds the byte the build converts it to.
C14_Witness ==
  /\ CycleEnd
  /\ holdSaves = 2
  /\ savedTemp = setTemp
  /\ (setTemp < 0 \/ setTemp >= ByteRange)
  /\ eeprom[addrSetTemp] = FloatToByteOn(build, setTemp)

(***************************************************************************)
(* Properties of the heater's bookkeeping, checked under Spec.             *)
(***************************************************************************)

\* C15: in every state, from power-up on, the relay pin is HIGH if and only
\* if heaterIsOn is true; the states are those between the steps of setup()
\* and between the passes of loop().
C15_RelayConsistent == relay = heaterIsOn

\* C15 witness: the heater has been turned On, then Off, then On again, and
\* the pin is HIGH.
C15_Witness ==
  /\ CycleEnd /\ heaterIsOn /\ relay
  /\ heaterOffMillis > 0
  /\ heaterOnMillis > heaterOffMillis

\* C16: a pass of loop() that turns the heater On sets heaterOnMillis to the
\* time of the pass and leaves heaterOffMillis; one that turns it Off sets
\* heaterOffMillis and leaves heaterOnMillis; one with no transition leaves
\* both. The transition itself touches neither setTemp nor currentTemp: in
\* the pass setTemp changes only by the release acted on, and currentTemp only
\* when the sampler takes a reading.
C16_Bookkeeping ==
  [][CyclePass
       => /\ ~heaterIsOn /\ heaterIsOn'
               => heaterOnMillis' = millis' /\ heaterOffMillis' = heaterOffMillis
          /\ heaterIsOn /\ ~heaterIsOn'
               => heaterOffMillis' = millis' /\ heaterOnMillis' = heaterOnMillis
          /\ heaterIsOn' = heaterIsOn
               => heaterOnMillis' = heaterOnMillis /\ heaterOffMillis' = heaterOffMillis
          /\ setTemp' = setTemp + (IF LeftRelease THEN 0 - 1
                                   ELSE IF RightRelease THEN 1 ELSE 0)
          /\ readTempMillis' = readTempMillis => currentTemp' = currentTemp]_vars

\* C16 witness: a turn-off at the time of the pass, after a turn-on whose
\* timestamp is still the earlier one.
C16_Witness ==
  /\ CycleEnd /\ branch = "guardOff" /\ ~heaterIsOn
  /\ heaterOffMillis = millis
  /\ heaterOnMillis > 0
  /\ heaterOnMillis < heaterOffMillis

\* C17: at the end of every pass of loop(), a heater that is On has
\* currentTemp < setTemp, for the setTemp and currentTemp the pass decided
\* on: an On heater with currentTemp >= setTemp is turned Off in the pass,
\* and a release of the pass has changed setTemp before the decision.
C17_NoHeatingAtTarget == CycleEnd /\ heaterIsOn => currentTemp < setTemp * Tenths

\* C17 witness: a pass that lowered setTemp to the reading or below it
\* turned the heater Off in the same pass, before the dwell had run out.
C17_Witness ==
  /\ CycleEnd /\ branch = "guardOff" /\ ~heaterIsOn
  /\ setTemp = eeprom[addrSetTemp] - 1
  /\ ~btnLeft /\ relLeft = 0
  /\ currentTemp >= setTemp * Tenths
  /\ currentTemp < (setTemp + 1) * Tenths
  /\ Sub32(millis, heaterOnMillis) <= OnOffInterval

\* C18 as claimed: whenever cell 0 holds the sentinel and setup() is not
\* between its two writes, cell 1 holds the byte of a setpoint written by
\* SaveSettings(), also after power was lost at any point of setup().
C18_StorageValid ==
  pc # "setup_save" /\ eeprom[addrInitialized] = eepromInitialized
    => /\ savedTemp # NoSave
       /\ eeprom[addrSetTemp] = FloatToByteOn(build, savedTemp)

\* C19: heaterOffMillis starts at 0 with no turn-off behind it, so a pass of
\* loop() that ends no later than OnOffInterval after power-up and decides
\* in the guard band does not turn the heater On, even with currentTemp +
\* tempThreshold < setTemp; a turn-on in that window is one of the
\* fast-recovery zone.
C19_BootDwell ==
  [][CyclePass /\ millis' <= OnOffInterval /\ ~heaterIsOn /\ heaterIsOn'
       => /\ setTemp' * Tenths - currentTemp' > tempDifference
          /\ branch' = "fastOn"]_vars

\* C19 witness: no turn-off has happened; a pass within OnOffInterval of
\* power-up decided in the guard band, with the reading more than
\* tempThreshold below setTemp, and left the heater Off.
C19_Witness ==
  /\ CycleEnd /\ branch = "none" /\ ~heaterIsOn
  /\ millis <= OnOffInterval
  /\ heaterOffMillis = 0 /\ heaterOnMillis = 0
  /\ setTemp * Tenths - currentTemp <= tempDifference
  /\ currentTemp + tempThreshold < setTemp * Tenths

====
